---- MODULE Spec2Model ----
(***************************************************************************)
(* Model of the CEL rule compilation / evaluation pipeline of kube-openapi *)
(*   pkg/util/cel/cel_compilation.go : Compile (rootName variant, lines    *)
(*       40-119) and Compile ("self" variant, lines 158-204)               *)
(*   validate package (unnamed/part_000): newCelExpressionValidator,       *)
(*       SetPath, Validate, CompileCel, CompileCelForScalarElement         *)
(* The expression engine (cel-go) and the celmodel package are outside the *)
(* modelled sources; they appear as operators over a small vocabulary of   *)
(* rule texts and as fault choices made at the call.                       *)
(***************************************************************************)
EXTENDS Integers, Sequences, FiniteSets, TLC

VARIABLES
    pc,         \* position of the current compile call
    fn,         \* the function being executed
    schema,     \* input: *spec.Schema (for CompileCelForScalarElement: schemaType)
    CelRules,   \* input: the rule list
    rootName,   \* input: rootName / schemaName argument
    path,       \* input: path argument of the constructor
    env,        \* the cel environment the rules are compiled against
    programs,   \* the returned program slice (Nil when nil is returned)
    allErrors,  \* the returned error slice
    i,          \* index of the next rule of the compile loop (1-based)
    submitted,  \* log: the env.Compile calls in order, each with the engine's answer
    raised,     \* log: setup calls that returned an error in this call
    validator,  \* the celExpressionValidator built by the constructor
    setPathArg, \* log: argument of the last SetPath call
    vpc,        \* position of the current Validate call
    data,       \* Validate's argument
    res,        \* Validate's *Result (its Errors)
    vi,         \* index of the next program of the Validate loop (1-based)
    evals,      \* log: the program.Eval calls of the current Validate call, each
                \* with the length of the result before and after its iteration
    args,       \* the caller's schema node and rule list as they were at the call
    prev,       \* the previous Validate call on the validator: its instance and result
    memo,       \* an earlier compile call kept by the caller: its inputs and results
    phase,      \* where the caller is in a sequence of compile calls
    other       \* a second Validate call running on the same validator

vars == <<pc, fn, schema, CelRules, rootName, path, env, programs, allErrors, i,
          submitted, raised, validator, setPathArg, vpc, data, res, vi, evals,
          args, prev, memo, phase, other>>

compileVars == <<pc, fn, schema, CelRules, rootName, path, env, programs, allErrors,
                 i, submitted, raised>>

validateVars == <<vpc, data, res, vi, evals>>

-----------------------------------------------------------------------------
(* Bounds *)

MaxRules == 2

-----------------------------------------------------------------------------
(* Values *)

Nil == "nil"

NoSchema ==
    [Type |-> <<>>, Format |-> "", Properties |-> {}, AdditionalProperties |-> Nil, Items |-> Nil]

MkSchema(t, props, addl, items) ==
    [Type |-> t, Format |-> "", Properties |-> props, AdditionalProperties |-> addl,
     Items |-> items]

\* SchemaProps.Format set on a schema.
WithFormat(s, f) == [s EXCEPT !.Format = f]

\* The schema nodes used as inputs: the shapes of the repository's test tables
\* plus type lists that hit the default branches.
Schemas ==
    { MkSchema(<<"string">>, {}, Nil, Nil),
      MkSchema(<<"integer">>, {}, Nil, Nil),
      MkSchema(<<"boolean">>, {}, Nil, Nil),
      MkSchema(<<"number">>, {}, Nil, Nil),
      MkSchema(<<"object">>, {<<"minReplicas", "integer">>, <<"maxReplicas", "integer">>}, Nil, Nil),
      MkSchema(<<"object">>, {}, "boolean", Nil),
      MkSchema(<<"array">>, {}, Nil, "string"),
      WithFormat(MkSchema(<<"string">>, {}, Nil, Nil), "byte"),
      MkSchema(<<"object">>, {<<"tags", "array">>}, Nil, Nil),
      MkSchema(<<"array">>, {}, Nil, "array"),
      MkSchema(<<"null", "string">>, {}, Nil, Nil),
      MkSchema(<<"file">>, {}, Nil, Nil) }

\* Rule texts (CelRule.Rule) and messages (CelRule.Message).
RuleTexts == {"", "true", "minReplicas < maxReplicas", "minReplicas", "size(self) == 10"}

Messages == {"m1", "m2"}

CelRule == [Rule : RuleTexts, Message : Messages]

RuleLists == UNION { [1..n -> CelRule] : n \in 0..MaxRules }

RootNames == {"", "root"}

SchemaNames == {"self", "root"}

SchemaTypes == {"string", "integer", "boolean", "number"}

Paths == {"", "spec"}

\* Calls of the setup that can return an error.
SetupCalls == {"NewRuleTypes", "EnvOptions", "Extend", "NewEnv"}

-----------------------------------------------------------------------------
(* spec.StringOrArray.Contains and the scalar switch *)

Contains(type, t) == \E k \in 1..Len(type) : type[k] = t

\* Variant: a number is declared as an integer.
ScalarDeclNumberAsInt(t) ==
    CASE t = "string" -> "String"
      [] t = "integer" -> "Int"
      [] t = "boolean" -> "Bool"
      [] t = "number" -> "Int"
      [] OTHER -> Nil

\* decls.String / decls.Int / decls.Bool / decls.Double of the scalar switch;
\* Nil stands for the default case.
ScalarDecl(t) ==
    CASE t = "string" -> "String"
      [] t = "integer" -> "Int"
      [] t = "boolean" -> "Bool"
      [] t = "number" -> "Double"
      [] OTHER -> Nil

ScalarElementDecl(t) ==
    CASE t = "string" -> "String"
      [] t = "integer" -> "Int"
      [] t = "boolean" -> "Bool"
      [] OTHER -> Nil

-----------------------------------------------------------------------------
(* celmodel: the declaration builder (package not among the sources) *)

DeclType(kind, exprType, fields) == [kind |-> kind, exprType |-> exprType, Fields |-> fields]

\* The absent declaration (a nil *DeclType).
NoDecl == DeclType("none", Nil, {})

\* The declared type of a field: a scalar, or a list for an array field.
FieldExprType(t) == IF t = "array" THEN "List" ELSE ScalarDecl(t)

\* SchemaDeclType: object -> object with one field per property, object with
\* additional properties -> map, array -> list, scalar -> scalar, else nothing.
SchemaDeclType(s) ==
    IF Len(s.Type) = 0 THEN NoDecl
    ELSE LET t == s.Type[1] IN
         CASE t = "object" /\ s.AdditionalProperties # Nil -> DeclType("map", "Map", {})
           [] t = "object" ->
                DeclType("object", "Object", { <<f[1], FieldExprType(f[2])>> : f \in s.Properties })
           [] t = "array" -> DeclType("list", "List", {})
           [] ScalarDecl(t) # Nil -> DeclType("scalar", ScalarDecl(t), {})
           [] OTHER -> NoDecl

IsObject(d) == d.kind = "object"
IsMap(d) == d.kind = "map"
IsList(d) == d.kind = "list"

\* rt.FindDeclType(rootName): the rule types register the root declaration of a
\* structured root under its name.
FindDeclTypeOk(d) == d.kind \in {"object", "map", "list"}

\* The variable declarations carried by rt.EnvOptions: the scope variable bound
\* to the whole value.
EnvOptionsDecls(name, d) == IF d = NoDecl THEN {} ELSE { <<name, d.exprType>> }

-----------------------------------------------------------------------------
(* The expression engine *)

\* cel.NewEnv() without options.
BaseEnv == [vars |-> {}, ext |-> FALSE]

\* env.Extend(opts...) / cel.NewEnv(opts...): the declarations are added.
ExtendEnv(e, decls, ext) == [vars |-> e.vars \cup decls, ext |-> e.ext \/ ext]

Declared(e, name) == \E v \in e.vars : v[1] = name

TypeOf(e, name) == (CHOOSE v \in e.vars : v[1] = name)[2]

\* env.Compile(text): Nil when the text parses and type-checks against the
\* environment, else the issues.
EnvCompile(e, text) ==
    CASE text = "" -> "Syntax error: mismatched input '<EOF>'"
      [] text = "true" -> Nil
      [] text = "minReplicas < maxReplicas" ->
            IF Declared(e, "minReplicas") /\ Declared(e, "maxReplicas")
            THEN Nil ELSE "undeclared reference to 'minReplicas'"
      [] text = "minReplicas" ->
            IF Declared(e, "minReplicas") THEN Nil
            ELSE "undeclared reference to 'minReplicas'"
      [] text = "size(self) == 10" ->
            IF ~Declared(e, "self") THEN "undeclared reference to 'self'"
            ELSE IF TypeOf(e, "self") \in {"String", "List", "Map"} THEN Nil
            ELSE "found no matching overload for 'size'"
      [] OTHER -> "Syntax error"

\* An entry of the log of engine calls: the rule index handed to env.Compile,
\* what the engine answered ("issues", "program error" or "ok") and its diagnostic.
Submitted(k, result, diag) == [idx |-> k, result |-> result, diag |-> diag]

\* A cel.Program: the checked expression bound to its environment; NilProgram
\* is the zero value of a slot of the program slice.
Program(text) == [nil |-> FALSE, expr |-> text]

NilProgram == [nil |-> TRUE, expr |-> ""]

\* A []cel.Program as returned: the nil slice or a slice of slots.
NilSlice == [nil |-> TRUE, elems |-> <<>>]

Slice(elems) == [nil |-> FALSE, elems |-> elems]

-----------------------------------------------------------------------------
(* Errors *)

Err(kind, message, cause) == [kind |-> kind, message |-> message, cause |-> cause]

\* An error returned by a setup call and appended unchanged.
SetupErr(call) == Err("setup", Nil, call)

\* Variant: the two arguments of the format are exchanged.
CompilationFailedSwapped(rule, issues) == Err("compilation failed for rule", issues, rule.Message)

\* fmt.Errorf("compilation failed for rule: %v with message: %v", rule.Message, issues.Err())
CompilationFailed(rule, issues) == Err("compilation failed for rule", rule.Message, issues)

\* fmt.Errorf("program instantiation failed for rule: %v with message: %v", rule.Message, err)
InstantiationFailed(rule, err) == Err("program instantiation failed for rule", rule.Message, err)

-----------------------------------------------------------------------------
(* Environment setup of the five entry points.  faults is the set of setup  *)
(* calls that return an error in this call.  The result says whether the    *)
(* rule loop is entered (ok), the environment, the errors returned          *)
(* otherwise, and the setup calls that did return an error.                 *)

SetupOk(e, r) == [ok |-> TRUE, env |-> e, errs |-> <<>>, raised |-> r]

SetupFail(errs, r) == [ok |-> FALSE, env |-> BaseEnv, errs |-> errs, raised |-> r]

\* celmodel.NewRuleTypes returns an error for a shape it cannot map.
NewRuleTypesErr(d, faults) == d = NoDecl \/ "NewRuleTypes" \in faults

DefaultName(name, dflt) == IF name = "" THEN dflt ELSE name

\* Variant: one package-level environment is extended by every call, in place of
\* the cel.NewEnv() of line 46.
CompileSetupSharedEnv(s, name, faults) ==
    LET rn == DefaultName(name, "self") IN
    IF Contains(s.Type, "string") \/ Contains(s.Type, "integer")
          \/ Contains(s.Type, "boolean") \/ Contains(s.Type, "number")
    THEN IF ScalarDecl(s.Type[1]) = Nil
         THEN SetupFail(<<Err("not supported for type", Nil, s.Type[1])>>, {})
         ELSE IF "NewEnv" \in faults
         THEN SetupFail(<<Err("error initializing CEL environment", Nil, "NewEnv")>>, {"NewEnv"})
         ELSE SetupOk(ExtendEnv(env, { <<rn, ScalarDecl(s.Type[1])>> }, TRUE), {})
    ELSE LET d == SchemaDeclType(s) IN
         IF NewRuleTypesErr(d, faults)
         THEN SetupFail(<<SetupErr("NewRuleTypes")>>, {"NewRuleTypes"})
         ELSE IF "EnvOptions" \in faults
         THEN SetupFail(<<SetupErr("EnvOptions")>>, {"EnvOptions"})
         ELSE IF FindDeclTypeOk(d) /\ ~(IsObject(d) \/ IsMap(d)) /\ ~IsList(d)
         THEN SetupFail(<<Err("unsupported type", Nil, Nil)>>, {})
         ELSE LET propDecls == IF FindDeclTypeOk(d) /\ (IsObject(d) \/ IsMap(d))
                               THEN d.Fields ELSE {}
              IN IF "Extend" \in faults
                 THEN SetupFail(<<SetupErr("Extend")>>, {"Extend"})
                 ELSE SetupOk(ExtendEnv(env, EnvOptionsDecls(rn, d) \cup propDecls, FALSE), {})

\* Variant: the fields of an object root are not declared as variables.
CompileSetupNoFieldVars(s, name, faults) ==
    LET rn == DefaultName(name, "self") IN
    IF Contains(s.Type, "string") \/ Contains(s.Type, "integer")
          \/ Contains(s.Type, "boolean") \/ Contains(s.Type, "number")
    THEN IF ScalarDecl(s.Type[1]) = Nil
         THEN SetupFail(<<Err("not supported for type", Nil, s.Type[1])>>, {})
         ELSE IF "NewEnv" \in faults
         THEN SetupFail(<<Err("error initializing CEL environment", Nil, "NewEnv")>>, {"NewEnv"})
         ELSE SetupOk(ExtendEnv(BaseEnv, { <<rn, ScalarDecl(s.Type[1])>> }, TRUE), {})
    ELSE LET d == SchemaDeclType(s) IN
         IF NewRuleTypesErr(d, faults)
         THEN SetupFail(<<SetupErr("NewRuleTypes")>>, {"NewRuleTypes"})
         ELSE IF "EnvOptions" \in faults
         THEN SetupFail(<<SetupErr("EnvOptions")>>, {"EnvOptions"})
         ELSE IF FindDeclTypeOk(d) /\ ~(IsObject(d) \/ IsMap(d)) /\ ~IsList(d)
         THEN SetupFail(<<Err("unsupported type", Nil, Nil)>>, {})
         ELSE LET propDecls == {}
              IN IF "Extend" \in faults
                 THEN SetupFail(<<SetupErr("Extend")>>, {"Extend"})
                 ELSE SetupOk(ExtendEnv(BaseEnv, EnvOptionsDecls(rn, d) \cup propDecls, FALSE), {})

\* Compile(schema, CelRules, rootName), lines 41-101.
CompileSetup(s, name, faults) ==
    LET rn == DefaultName(name, "self") IN
    IF Contains(s.Type, "string") \/ Contains(s.Type, "integer")
          \/ Contains(s.Type, "boolean") \/ Contains(s.Type, "number")
    THEN IF ScalarDecl(s.Type[1]) = Nil
         THEN SetupFail(<<Err("not supported for type", Nil, s.Type[1])>>, {})
         ELSE IF "NewEnv" \in faults
         THEN SetupFail(<<Err("error initializing CEL environment", Nil, "NewEnv")>>, {"NewEnv"})
         ELSE SetupOk(ExtendEnv(BaseEnv, { <<rn, ScalarDecl(s.Type[1])>> }, TRUE), {})
    ELSE LET d == SchemaDeclType(s) IN
         IF NewRuleTypesErr(d, faults)
         THEN SetupFail(<<SetupErr("NewRuleTypes")>>, {"NewRuleTypes"})
         ELSE IF "EnvOptions" \in faults
         THEN SetupFail(<<SetupErr("EnvOptions")>>, {"EnvOptions"})
         ELSE IF FindDeclTypeOk(d) /\ ~(IsObject(d) \/ IsMap(d)) /\ ~IsList(d)
         THEN SetupFail(<<Err("unsupported type", Nil, Nil)>>, {})
         ELSE LET propDecls == IF FindDeclTypeOk(d) /\ (IsObject(d) \/ IsMap(d))
                               THEN d.Fields ELSE {}
              IN IF "Extend" \in faults
                 THEN SetupFail(<<SetupErr("Extend")>>, {"Extend"})
                 ELSE SetupOk(ExtendEnv(BaseEnv, EnvOptionsDecls(rn, d) \cup propDecls, FALSE), {})

\* Variant: a list root exposes its elements as a variable "items".
Compile2SetupListItems(s, faults) ==
    LET d == SchemaDeclType(s) IN
    IF NewRuleTypesErr(d, faults)
    THEN SetupFail(<<SetupErr("NewRuleTypes")>>, {"NewRuleTypes"})
    ELSE LET optsFailed == "EnvOptions" \in faults
             optDecls == IF optsFailed THEN {} ELSE EnvOptionsDecls("self", d)
             r == IF optsFailed THEN {"EnvOptions"} ELSE {}
             propDecls == (IF IsObject(d) THEN d.Fields
                           ELSE IF IsList(d) THEN { <<"items", "List">> } ELSE {})
                            \cup { <<"self", d.exprType>> }
         IN IF "Extend" \in faults
            THEN SetupFail(<<SetupErr("Extend")>>, r \cup {"Extend"})
            ELSE SetupOk(ExtendEnv(BaseEnv, optDecls \cup propDecls, FALSE), r)

\* Compile(schema, celRules), lines 159-187: the error of rt.EnvOptions is
\* overwritten by env.Extend without being looked at.
Compile2Setup(s, faults) ==
    LET d == SchemaDeclType(s) IN
    IF NewRuleTypesErr(d, faults)
    THEN SetupFail(<<SetupErr("NewRuleTypes")>>, {"NewRuleTypes"})
    ELSE LET optsFailed == "EnvOptions" \in faults
             optDecls == IF optsFailed THEN {} ELSE EnvOptionsDecls("self", d)
             r == IF optsFailed THEN {"EnvOptions"} ELSE {}
             propDecls == (IF IsObject(d) THEN d.Fields ELSE {})
                            \cup { <<"self", d.exprType>> }
         IN IF "Extend" \in faults
            THEN SetupFail(<<SetupErr("Extend")>>, r \cup {"Extend"})
            ELSE SetupOk(ExtendEnv(BaseEnv, optDecls \cup propDecls, FALSE), r)

\* CompileCel(schema, CelRules, rootName), part_000 lines 153-183.
CompileCelSetup(s, name, faults) ==
    LET rn == DefaultName(name, "__root__")
        d == SchemaDeclType(s)
    IN IF NewRuleTypesErr(d, faults)
       THEN SetupFail(<<SetupErr("NewRuleTypes")>>, {"NewRuleTypes"})
       ELSE IF "EnvOptions" \in faults
       THEN SetupFail(<<SetupErr("EnvOptions")>>, {"EnvOptions"})
       ELSE LET propDecls == IF FindDeclTypeOk(d) /\ IsObject(d) THEN d.Fields ELSE {}
            IN IF "Extend" \in faults
               THEN SetupFail(<<SetupErr("Extend")>>, {"Extend"})
               ELSE SetupOk(ExtendEnv(BaseEnv, EnvOptionsDecls(rn, d) \cup propDecls, FALSE), {})

\* CompileCelForScalarElement(CelRules, schemaName, schemaType), part_000 lines 204-225.
ScalarElementSetup(schemaName, schemaType, faults) ==
    IF ScalarElementDecl(schemaType) = Nil
    THEN SetupFail(<<Err("not supported for type", Nil, schemaType)>>, {})
    ELSE IF "NewEnv" \in faults
    THEN SetupFail(<<Err("error initializing CEL environment", Nil, "NewEnv")>>, {"NewEnv"})
    ELSE SetupOk(ExtendEnv(BaseEnv, { <<schemaName, ScalarElementDecl(schemaType)>> }, TRUE), {})

\* newCelExpressionValidator(path, schema, rules), part_000 lines 38-62: every
\* error of the setup is a panic (ok = FALSE).
ValidatorSetup(s, faults) ==
    LET d == SchemaDeclType(s) IN
    IF NewRuleTypesErr(d, faults)
    THEN SetupFail(<<SetupErr("NewRuleTypes")>>, {"NewRuleTypes"})
    ELSE IF "EnvOptions" \in faults
    THEN SetupFail(<<SetupErr("EnvOptions")>>, {"EnvOptions"})
    ELSE LET propDecls == IF FindDeclTypeOk(d) /\ IsObject(d) THEN d.Fields ELSE {}
         IN IF "Extend" \in faults
            THEN SetupFail(<<SetupErr("Extend")>>, {"Extend"})
            ELSE SetupOk(ExtendEnv(BaseEnv, EnvOptionsDecls("__root__", d) \cup propDecls, FALSE), {})

-----------------------------------------------------------------------------
(* The compile loop shared by Compile, Compile ("self" variant), CompileCel *)
(* and CompileCelForScalarElement (the four loops are the same text).       *)

\* Variant: the slice is made one slot longer than the rule list.
MakeProgramsOneMore(n) == Slice([k \in 1..(n + 1) |-> NilProgram])

\* programs := make([]cel.Program, len(CelRules))
MakePrograms(n) == Slice([k \in 1..n |-> NilProgram])

\* Variant: the program goes to the first free slot (the list is kept compact).
SetProgramCompact(ps, k, prog) ==
    LET free == { j \in 1..Len(ps.elems) : ps.elems[j].nil }
        first == CHOOSE j \in free : \A l \in free : j <= l
    IN Slice([ps.elems EXCEPT ![first] = prog])

\* Variant: the store is forgotten.
SetProgramDropped(ps, k, prog) == ps

\* programs[i] = prog
SetProgram(ps, k, prog) == Slice([ps.elems EXCEPT ![k] = prog])

\* Variant: a rule that fails is tried again.
LoopNextRetry(k, n, failed) == IF failed THEN k ELSE k + 1

\* Variant: the loop is left at the first rule that fails.
LoopNextFailFast(k, n, failed) == IF failed THEN n + 1 ELSE k + 1

\* for i, rule := range CelRules: the index after rule k, whatever its outcome.
LoopNext(k, n, failed) == k + 1

CompileFns == {"Compile", "Compile2", "CompileCel", "CompileCelForScalarElement"}

\* The state in which no call has been made.
Idle == pc = "idle"

\* Variant: rules with an empty expression are removed from the caller's slice.
EnterCompacting(f, s, rules, name, p, r) ==
    /\ fn' = f
    /\ schema' = s
    /\ CelRules' = SelectSeq(rules, LAMBDA rule : rule.Rule # "")
    /\ rootName' = name
    /\ path' = p
    /\ env' = r.env
    /\ raised' = r.raised
    /\ allErrors' = r.errs
    /\ submitted' = <<>>
    /\ i' = 1
    /\ programs' = IF r.ok THEN MakePrograms(Len(rules)) ELSE NilSlice
    /\ args' = [schema |-> s, rules |-> rules]

\* Entering a function: the setup result decides between the loop and the
\* early return of (nil, allErrors).
Enter(f, s, rules, name, p, r) ==
    /\ fn' = f
    /\ schema' = s
    /\ CelRules' = rules
    /\ rootName' = name
    /\ path' = p
    /\ env' = r.env
    /\ raised' = r.raised
    /\ allErrors' = r.errs
    /\ submitted' = <<>>
    /\ i' = 1
    /\ programs' = IF r.ok THEN MakePrograms(Len(rules)) ELSE NilSlice
    /\ args' = [schema |-> s, rules |-> rules]

Compile ==
    /\ Idle
    /\ \E s \in Schemas, rules \in RuleLists, name \in RootNames, faults \in SUBSET SetupCalls :
          LET r == CompileSetup(s, name, faults) IN
          /\ Enter("Compile", s, rules, name, "", r)
          /\ pc' = IF r.ok THEN "loop" ELSE "done"
    /\ UNCHANGED <<validator, setPathArg, validateVars>>
    /\ UNCHANGED <<prev, memo, phase, other>>

Compile2 ==
    /\ Idle
    /\ \E s \in Schemas, rules \in RuleLists, faults \in SUBSET SetupCalls :
          LET r == Compile2Setup(s, faults) IN
          /\ Enter("Compile2", s, rules, "", "", r)
          /\ pc' = IF r.ok THEN "loop" ELSE "done"
    /\ UNCHANGED <<validator, setPathArg, validateVars>>
    /\ UNCHANGED <<prev, memo, phase, other>>

CompileCel ==
    /\ Idle
    /\ \E s \in Schemas, rules \in RuleLists, name \in RootNames, faults \in SUBSET SetupCalls :
          LET r == CompileCelSetup(s, name, faults) IN
          /\ Enter("CompileCel", s, rules, name, "", r)
          /\ pc' = IF r.ok THEN "loop" ELSE "done"
    /\ UNCHANGED <<validator, setPathArg, validateVars>>
    /\ UNCHANGED <<prev, memo, phase, other>>

CompileCelForScalarElement ==
    /\ Idle
    /\ \E rules \in RuleLists, name \in SchemaNames, t \in SchemaTypes, faults \in SUBSET SetupCalls :
          LET r == ScalarElementSetup(name, t, faults) IN
          /\ Enter("CompileCelForScalarElement", MkSchema(<<t>>, {}, Nil, Nil), rules, name, "", r)
          /\ pc' = IF r.ok THEN "loop" ELSE "done"
    /\ UNCHANGED <<validator, setPathArg, validateVars>>
    /\ UNCHANGED <<prev, memo, phase, other>>

\* One iteration of the loop: env.Compile, then env.Program, whose error is a
\* choice of the engine.
CompileRule ==
    /\ pc = "loop"
    /\ fn \in CompileFns
    /\ i <= Len(CelRules)
    /\ LET rule == CelRules[i]
           issues == EnvCompile(env, rule.Rule)
       IN IF issues # Nil
          THEN /\ submitted' = Append(submitted, Submitted(i, "issues", issues))
               /\ allErrors' = Append(allErrors, CompilationFailed(rule, issues))
               /\ programs' = programs
               /\ i' = LoopNext(i, Len(CelRules), TRUE)
          ELSE \E progErr \in BOOLEAN :
                 IF progErr
                 THEN /\ submitted' = Append(submitted, Submitted(i, "program error", "program error"))
                      /\ allErrors' = Append(allErrors, InstantiationFailed(rule, "program error"))
                      /\ programs' = programs
                      /\ i' = LoopNext(i, Len(CelRules), TRUE)
                 ELSE /\ submitted' = Append(submitted, Submitted(i, "ok", Nil))
                      /\ allErrors' = allErrors
                      /\ programs' = SetProgram(programs, i, Program(rule.Rule))
                      /\ i' = LoopNext(i, Len(CelRules), FALSE)
    /\ UNCHANGED <<pc, fn, schema, CelRules, rootName, path, env, raised,
                   validator, setPathArg, validateVars>>
    /\ UNCHANGED <<args, prev, memo, phase, other>>

\* return programs, allErrors
CompileReturn ==
    /\ pc = "loop"
    /\ fn \in CompileFns
    /\ i > Len(CelRules)
    /\ pc' = "done"
    /\ UNCHANGED <<fn, schema, CelRules, rootName, path, env, programs, allErrors, i,
                   submitted, raised, validator, setPathArg, validateVars>>
    /\ UNCHANGED <<args, prev, memo, phase, other>>

-----------------------------------------------------------------------------
(* newCelExpressionValidator: the constructor panics where Compile appends *)

\* The zero celExpressionValidator, before the constructor has returned.
NoValidator == [Path |-> "", Rules |-> <<>>, Programs |-> <<>>]

\* &celExpressionValidator{Path: path, Rules: rules, Programs: programs}
MakeValidator(p, rules, ps) == [Path |-> p, Rules |-> rules, Programs |-> ps.elems]

newCelExpressionValidator ==
    /\ Idle
    /\ \E p \in Paths, s \in Schemas, rules \in RuleLists, faults \in SUBSET SetupCalls :
          LET r == ValidatorSetup(s, faults) IN
          /\ Enter("newCelExpressionValidator", s, rules, "", p, r)
          /\ pc' = IF r.ok THEN "loop" ELSE "panic"
    /\ UNCHANGED <<validator, setPathArg, validateVars>>
    /\ UNCHANGED <<prev, memo, phase, other>>

\* One iteration of the constructor's loop, lines 65-76.
ValidatorCompileRule ==
    /\ pc = "loop"
    /\ fn = "newCelExpressionValidator"
    /\ i <= Len(CelRules)
    /\ LET rule == CelRules[i]
           issues == EnvCompile(env, rule.Rule)
       IN IF issues # Nil
          THEN /\ submitted' = Append(submitted, Submitted(i, "issues", issues))
               /\ pc' = "panic"
               /\ allErrors' = <<Err("compilation failed", Nil, issues)>>
               /\ UNCHANGED <<programs, i>>
          ELSE \E progErr \in BOOLEAN :
                 IF progErr
                 THEN /\ submitted' = Append(submitted, Submitted(i, "program error", "program error"))
                      /\ pc' = "panic"
                      /\ allErrors' = <<Err("program instantiation failed", Nil, "program error")>>
                      /\ UNCHANGED <<programs, i>>
                 ELSE /\ submitted' = Append(submitted, Submitted(i, "ok", Nil))
                      /\ pc' = pc
                      /\ allErrors' = allErrors
                      /\ programs' = SetProgram(programs, i, Program(rule.Rule))
                      /\ i' = i + 1
    /\ UNCHANGED <<fn, schema, CelRules, rootName, path, env, raised,
                   validator, setPathArg, validateVars>>
    /\ UNCHANGED <<args, prev, memo, phase, other>>

ValidatorReturn ==
    /\ pc = "loop"
    /\ fn = "newCelExpressionValidator"
    /\ i > Len(CelRules)
    /\ pc' = "done"
    /\ validator' = MakeValidator(path, CelRules, programs)
    /\ UNCHANGED <<fn, schema, CelRules, rootName, path, env, programs, allErrors, i,
                   submitted, raised, setPathArg, validateVars>>
    /\ UNCHANGED <<args, prev, memo, phase, other>>

\* A validator has been returned to the caller.
Built == fn = "newCelExpressionValidator" /\ pc = "done"

-----------------------------------------------------------------------------
(* celExpressionValidator.SetPath and Validate *)

\* No SetPath call has been made on the validator.
NoPath == "<none>"

\* func (c celExpressionValidator) SetPath(path string): c is a copy of the
\* receiver, the assignment changes the copy and the caller's validator stays.
SetPathReceiver(c, p) ==
    LET copy == [c EXCEPT !.Path = p] IN c

SetPath ==
    /\ Built
    /\ vpc # "loop"
    /\ \E p \in Paths :
          /\ validator' = SetPathReceiver(validator, p)
          /\ setPathArg' = p
    /\ UNCHANGED <<compileVars, validateVars>>
    /\ UNCHANGED <<args, prev, memo, phase, other>>

\* Instance values handed to Validate.
Instance(has, mn, mx) == [has |-> has, minReplicas |-> mn, maxReplicas |-> mx]

Instances == { Instance(TRUE, 5, 10), Instance(TRUE, 11, 10), Instance(FALSE, 0, 0) }

\* ref.Val of the engine: a typed value.
Val(type, v) == [type |-> type, v |-> v]

EvalOk(val) == [value |-> val, err |-> Nil]

EvalErr(e) == [value |-> Val("error", 0), err |-> e]

\* program.Eval(data): the value of the expression on the instance, or the
\* runtime error of a reference the instance does not hold.
Eval(prog, d) ==
    CASE prog.expr = "true" -> EvalOk(Val("bool", TRUE))
      [] prog.expr = "minReplicas < maxReplicas" ->
            IF d.has THEN EvalOk(Val("bool", d.minReplicas < d.maxReplicas))
            ELSE EvalErr("no such key: minReplicas")
      [] prog.expr = "minReplicas" ->
            IF d.has THEN EvalOk(Val("int", d.minReplicas))
            ELSE EvalErr("no such key: minReplicas")
      [] OTHER -> EvalErr("no such attribute: self")

\* Variant: only the boolean false is a failure.
NotTrueOnlyFalse(val) == val.type = "bool" /\ ~val.v

\* evalResult.Value() != true
NotTrue(val) == ~(val.type = "bool" /\ val.v)

\* errors.ErrorExecutingValidatorRule(c.Path, "", rule.Rule, err, data)
ErrorExecutingValidatorRule(p, rule, e) ==
    [kind |-> "ErrorExecutingValidatorRule", path |-> p, rule |-> rule.Rule,
     message |-> Nil, cause |-> e]

\* errors.FailedValidatorRule(c.Path, "", rule.Rule, rule.Message, data)
FailedValidatorRule(p, rule) ==
    [kind |-> "FailedValidatorRule", path |-> p, rule |-> rule.Rule,
     message |-> rule.Message, cause |-> Nil]

\* Variant: the continue after the runtime error is missing.
RuleOutcomeNoContinue(c, k, d) ==
    LET rule == c.Rules[k]
        r == Eval(c.Programs[k], d)
    IN (IF r.err # Nil THEN <<ErrorExecutingValidatorRule(c.Path, rule, r.err)>> ELSE <<>>)
         \o (IF r.err # Nil \/ ~(r.value.type = "bool" /\ r.value.v)
             THEN <<FailedValidatorRule(c.Path, rule)>> ELSE <<>>)

\* The errors one program adds to the result, lines 102-110.
RuleOutcome(c, k, d) ==
    LET rule == c.Rules[k]
        r == Eval(c.Programs[k], d)
    IN IF r.err # Nil
       THEN <<ErrorExecutingValidatorRule(c.Path, rule, r.err)>>
       ELSE IF NotTrue(r.value)
       THEN <<FailedValidatorRule(c.Path, rule)>>
       ELSE <<>>

\* An entry of the log of Validate: the program index handed to Eval and the
\* length of res.Errors before and after that iteration.
Evaluated(k, before, after) == [idx |-> k, before |-> before, after |-> after]

\* Variant: Validate returns at the first rule that is not satisfied.
ValidateNextFailFast(k, n, failed) == IF failed THEN n + 1 ELSE k + 1

\* for i, program := range c.Programs: the index after program k.
ValidateNext(k, n, failed) == k + 1

\* What the caller holds of a Validate call that has returned.
NoCall == [set |-> FALSE, data |-> Instance(FALSE, 0, 0), res |-> <<>>]

Finished(d, r) == [set |-> TRUE, data |-> d, res |-> r]

\* Variant: the Result of the previous call is appended to.
ValidateReusingResult ==
    /\ Built
    /\ vpc \in {"idle", "done"}
    /\ \E d \in Instances : data' = d
    /\ res' = res
    /\ vi' = 1
    /\ evals' = <<>>
    /\ vpc' = "loop"
    /\ prev' = IF vpc = "done" THEN Finished(data, res) ELSE prev
    /\ UNCHANGED <<compileVars, validator, setPathArg>>
    /\ UNCHANGED <<args, memo, phase, other>>

\* res := new(Result)
Validate ==
    /\ Built
    /\ vpc \in {"idle", "done"}
    /\ \E d \in Instances : data' = d
    /\ res' = <<>>
    /\ vi' = 1
    /\ evals' = <<>>
    /\ vpc' = "loop"
    /\ prev' = IF vpc = "done" THEN Finished(data, res) ELSE prev
    /\ UNCHANGED <<compileVars, validator, setPathArg>>
    /\ UNCHANGED <<args, memo, phase, other>>

\* One iteration of Validate's loop; indexing a rule that does not exist or
\* calling a nil program is a runtime panic.
ValidateRule ==
    /\ vpc = "loop"
    /\ vi <= Len(validator.Programs)
    /\ IF vi > Len(validator.Rules) \/ validator.Programs[vi].nil
       THEN /\ vpc' = "panic"
            /\ UNCHANGED <<res, vi, evals>>
       ELSE LET out == RuleOutcome(validator, vi, data) IN
            /\ evals' = Append(evals, Evaluated(vi, Len(res), Len(res) + Len(out)))
            /\ res' = res \o out
            /\ vi' = ValidateNext(vi, Len(validator.Programs), out # <<>>)
            /\ vpc' = vpc
    /\ UNCHANGED <<compileVars, validator, setPathArg, data>>
    /\ UNCHANGED <<args, prev, memo, phase, other>>

\* return res
ValidateReturn ==
    /\ vpc = "loop"
    /\ vi > Len(validator.Programs)
    /\ vpc' = "done"
    /\ UNCHANGED <<compileVars, validator, setPathArg, data, res, vi, evals>>
    /\ UNCHANGED <<args, prev, memo, phase, other>>

\* Result.IsValid(): the result holds no error.
IsValid(r) == Len(r) = 0

-----------------------------------------------------------------------------
(* What a caller holds between calls *)

\* No call has been made: nothing was passed.
NoArgs == [schema |-> NoSchema, rules |-> <<>>]

\* The programs and errors a compile call returned, kept with its inputs.
NoMemo ==
    [set |-> FALSE, others |-> FALSE, fn |-> "none", schema |-> NoSchema, rules |-> <<>>,
     rootName |-> "", raised |-> {}, env |-> BaseEnv, programs |-> NilSlice,
     allErrors |-> <<>>, submitted |-> <<>>]

\* The second Validate call has not started.
NotRunning == [vpc |-> "idle", data |-> Instance(FALSE, 0, 0), res |-> <<>>, vi |-> 1]

-----------------------------------------------------------------------------
(* Specification *)

Init ==
    /\ pc = "idle"
    /\ fn = "none"
    /\ schema = NoSchema
    /\ CelRules = <<>>
    /\ rootName = ""
    /\ path = ""
    /\ env = BaseEnv
    /\ programs = NilSlice
    /\ allErrors = <<>>
    /\ i = 1
    /\ submitted = <<>>
    /\ raised = {}
    /\ validator = NoValidator
    /\ setPathArg = NoPath
    /\ vpc = "idle"
    /\ data = Instance(FALSE, 0, 0)
    /\ res = <<>>
    /\ vi = 1
    /\ evals = <<>>
    /\ args = NoArgs
    /\ prev = NoCall
    /\ memo = NoMemo
    /\ phase = "first"
    /\ other = NotRunning

Next ==
    \/ Compile
    \/ Compile2
    \/ CompileCel
    \/ CompileCelForScalarElement
    \/ CompileRule
    \/ CompileReturn
    \/ newCelExpressionValidator
    \/ ValidatorCompileRule
    \/ ValidatorReturn
    \/ SetPath
    \/ Validate
    \/ ValidateRule
    \/ ValidateReturn

Spec == Init /\ [][Next]_vars

-----------------------------------------------------------------------------
(* Properties of the compile functions *)

\* A compile function has returned to its caller.
Returned == pc = "done" /\ fn \in CompileFns

\* The setup succeeded: the rule loop was entered and a program list is returned.
LoopEntered == ~programs.nil

N == Len(CelRules)

\* Positions of the log of engine calls, and those the engine accepted / refused.
Calls == 1..Len(submitted)

OkRules == { submitted[j].idx : j \in { c \in Calls : submitted[c].result = "ok" } }

FailedCalls == { c \in Calls : submitted[c].result # "ok" }

NumPrograms == Cardinality({ k \in 1..Len(programs.elems) : ~programs.elems[k].nil })

\* C1: when the setup succeeds, the returned program list has exactly one slot
\* per rule; slot k holds a program exactly when rule k compiled and
\* instantiated, that program is rule k's own, and the slot of a failed rule
\* is nil.
C1_IndexAligned ==
    (Returned /\ LoopEntered) =>
        /\ Len(programs.elems) = N
        /\ \A k \in 1..N :
              /\ ~programs.elems[k].nil <=> k \in OkRules
              /\ ~programs.elems[k].nil => programs.elems[k] = Program(CelRules[k].Rule)

\* Reached: a call returned with rule 1 failed and rule 2 compiled: a nil slot
\* followed by a program.
C1_Witness ==
    /\ Returned /\ LoopEntered /\ N = 2
    /\ programs.elems[1].nil
    /\ ~programs.elems[2].nil

\* C2: once the environment is built, every rule 1..N is handed to the engine
\* compiler, in order, whatever happened to the rules before it, and the
\* returned list holds one error per failing rule, carrying that rule's message.
C2_NoFailFast ==
    (Returned /\ LoopEntered) =>
        /\ [c \in Calls |-> submitted[c].idx] = [k \in 1..N |-> k]
        /\ Len(allErrors) = Cardinality(FailedCalls)
        /\ \A c \in FailedCalls :
              \E m \in 1..Len(allErrors) :
                  allErrors[m].message = CelRules[submitted[c].idx].Message

\* Reached: both rules of a list failed and both errors are returned.
C2_Witness ==
    /\ Returned /\ LoopEntered /\ N = 2
    /\ submitted[1].result # "ok"
    /\ Len(submitted) = 2
    /\ Len(allErrors) = 2
    /\ allErrors[1].message # allErrors[2].message

\* C3 as stated: for any schema and any rule list, the number of programs plus
\* the number of returned errors is N.
C3_AsStated == Returned => NumPrograms + Len(allErrors) = N

\* C3 amended: when the rule loop is entered, programs plus errors is N; when
\* the setup fails, no program list and exactly one error are returned,
\* whatever N is.
C3_SumIsN ==
    Returned =>
        /\ LoopEntered => NumPrograms + Len(allErrors) = N
        /\ ~LoopEntered => NumPrograms = 0 /\ Len(allErrors) = 1

\* Reached: a returned call with one program and one error for two rules.
C3_Witness ==
    /\ Returned /\ LoopEntered /\ N = 2
    /\ NumPrograms = 1
    /\ Len(allErrors) = 1

\* C4 as stated: a rule with empty text is never handed to the engine
\* compiler and yields an error tagged "rule is not specified", one per empty
\* rule.
C4_AsStated ==
    (Returned /\ LoopEntered) =>
        /\ \A c \in Calls : CelRules[submitted[c].idx].Rule # ""
        /\ Cardinality({ m \in 1..Len(allErrors) : allErrors[m].kind = "rule is not specified" })
             = Cardinality({ k \in 1..N : CelRules[k].Rule = "" })

\* The refused engine calls, in call order.
FailSeq == SelectSeq(submitted, LAMBDA e : e.result # "ok")

\* C5: the m-th error of the loop belongs to the m-th refused rule; when the
\* engine compiler refused it, the error is prefixed "compilation failed for
\* rule" and carries that rule's own message and the engine's diagnostic.
C5_OwnMessageAndDiagnostic ==
    (fn \in CompileFns /\ pc \in {"loop", "done"} /\ LoopEntered) =>
        /\ Len(allErrors) = Len(FailSeq)
        /\ \A m \in 1..Len(FailSeq) :
              FailSeq[m].result = "issues" =>
                  /\ allErrors[m].kind = "compilation failed for rule"
                  /\ allErrors[m].message = CelRules[FailSeq[m].idx].Message
                  /\ allErrors[m].cause = FailSeq[m].diag

\* Reached: rule 1 compiled, rule 2 (with another message) was refused by the
\* engine compiler, and the one error carries rule 2's message.
C5_Witness ==
    /\ Returned /\ LoopEntered /\ N = 2
    /\ CelRules[1].Message # CelRules[2].Message
    /\ Len(submitted) = 2
    /\ submitted[1].result = "ok"
    /\ submitted[2].result = "issues"
    /\ Len(allErrors) = 1
    /\ allErrors[1].message = CelRules[2].Message

-----------------------------------------------------------------------------
(* Properties of Validate *)

\* A Validate call is running or has returned.
Validating == vpc \in {"loop", "done"}

\* The engine's answer for program k on the instance of the current call.
Answer(k) == Eval(validator.Programs[k], data)

RuntimeFailure(k) == Answer(k).err # Nil

IsBool(k) == Answer(k).err = Nil /\ Answer(k).value.type = "bool"

IsTrue(k) == IsBool(k) /\ Answer(k).value.v

IsFalse(k) == IsBool(k) /\ ~Answer(k).value.v

NonBool(k) == Answer(k).err = Nil /\ Answer(k).value.type # "bool"

\* Number of errors the iteration of a log entry added to the result.
Added(e) == e.after - e.before

\* The unsatisfied-rule error of rule k.
Unsatisfied(k) ==
    [kind |-> "FailedValidatorRule", path |-> validator.Path,
     rule |-> validator.Rules[k].Rule, message |-> validator.Rules[k].Message,
     cause |-> Nil]

\* C6: one program on one instance adds zero or one error: a runtime failure
\* adds exactly the execution error (cause, path, rule text) and nothing else,
\* false adds exactly the unsatisfied-rule error (message, path, rule text),
\* true adds nothing.
C6_ZeroOrOneError ==
    Validating =>
        \A j \in 1..Len(evals) :
            LET e == evals[j]
                k == e.idx
            IN /\ Added(e) \in {0, 1}
               /\ RuntimeFailure(k) =>
                     /\ Added(e) = 1
                     /\ res[e.after].kind = "ErrorExecutingValidatorRule"
                     /\ res[e.after].cause = Answer(k).err
                     /\ res[e.after].path = validator.Path
                     /\ res[e.after].rule = validator.Rules[k].Rule
               /\ IsFalse(k) => Added(e) = 1 /\ res[e.after] = Unsatisfied(k)
               /\ IsTrue(k) => Added(e) = 0

\* Reached: a call returned in which rule 1 failed at run time, rule 2 was
\* true, and the result holds the one execution error.
C6_Witness ==
    /\ vpc = "done"
    /\ Len(evals) = 2
    /\ RuntimeFailure(1)
    /\ IsTrue(2)
    /\ Len(res) = 1
    /\ res[1].kind = "ErrorExecutingValidatorRule"

\* C7: a value that is not a boolean is treated as false: it adds the
\* unsatisfied-rule error with the rule's message; an iteration adds nothing
\* only for the boolean true.
C7_NonBoolIsFailure ==
    Validating =>
        \A j \in 1..Len(evals) :
            LET e == evals[j]
                k == e.idx
            IN /\ NonBool(k) => Added(e) = 1 /\ res[e.after] = Unsatisfied(k)
               /\ Added(e) = 0 => IsTrue(k)

\* Reached: a program evaluated to an integer and the unsatisfied-rule error
\* was added for it.
C7_Witness ==
    /\ vpc = "done"
    /\ Len(evals) >= 1
    /\ NonBool(1)
    /\ Len(res) >= 1
    /\ res[1].kind = "FailedValidatorRule"
    /\ res[1].message = validator.Rules[1].Message

\* C8: a returned Validate call has evaluated every program 1..N in order, the
\* result holds one error per rule that was not true, and it is valid exactly
\* when every rule was true.
C8_AllRulesRun ==
    vpc = "done" =>
        LET n == Len(validator.Programs) IN
        /\ [j \in 1..Len(evals) |-> evals[j].idx] = [k \in 1..n |-> k]
        /\ Len(res) = Cardinality({ k \in 1..n : ~IsTrue(k) })
        /\ \A j \in 1..Len(evals) : Added(evals[j]) = (IF IsTrue(evals[j].idx) THEN 0 ELSE 1)
        /\ IsValid(res) <=> \A k \in 1..n : IsTrue(k)

\* Reached: rule 1 failed at run time and the last rule still ran and
\* produced its own error.
C8_Witness ==
    /\ vpc = "done"
    /\ Len(validator.Programs) >= 2
    /\ RuntimeFailure(1)
    /\ Len(evals) = Len(validator.Programs)
    /\ Len(res) = Len(validator.Programs)
    /\ res[1].kind = "ErrorExecutingValidatorRule"

\* C9 as stated: no failure path panics, in the constructor as in Compile.
C9_AsStated == pc # "panic" /\ vpc # "panic"

\* C10 as stated: every error raised by a setup call is in the returned error
\* list and ends the call: no program list is returned and no rule is handed
\* to the engine compiler.
C10_AsStated ==
    (Returned /\ raised # {}) =>
        /\ programs.nil
        /\ submitted = <<>>
        /\ \A c \in raised : \E m \in 1..Len(allErrors) : allErrors[m].cause = c

-----------------------------------------------------------------------------
(* Properties of the environment *)

ScalarKinds == {"string", "integer", "boolean", "number"}

\* The schema's type is none of the kinds the declaration builder maps.
Unmappable(s) == Len(s.Type) = 0 \/ s.Type[1] \notin (ScalarKinds \cup {"object", "array"})

\* The schema is a scalar root.
ScalarRoot(s) == Len(s.Type) = 1 /\ s.Type[1] \in ScalarKinds

\* The call is past its setup with an environment to compile against.
EnvBuilt == pc \in {"loop", "done"} /\ LoopEntered

\* C11 as stated: an unmappable type yields an error, no program list and no
\* engine call; none of the four scalar kinds is ever reported as unsupported.
C11_AsStated ==
    Returned =>
        /\ Unmappable(schema) =>
              programs.nil /\ submitted = <<>> /\ Len(allErrors) >= 1
        /\ ScalarRoot(schema) =>
              \A m \in 1..Len(allErrors) : allErrors[m].kind # "not supported for type"

\* The engine type the claim gives to a scalar kind.
ClaimedScalarType(t) ==
    CASE t = "string" -> "String"
      [] t = "integer" -> "Int"
      [] t = "boolean" -> "Bool"
      [] t = "number" -> "Double"

\* C12: for a scalar root, the environment of Compile declares exactly one
\* variable: the scope variable ("self", or the root name given), typed
\* String, Int, Bool or Double after the schema type; no other variable
\* exists, and format byte changes nothing for a string.
C12_ScalarRootEnv ==
    (fn \in {"Compile", "Compile2"} /\ EnvBuilt /\ ScalarRoot(schema)) =>
        LET scope == IF fn = "Compile" /\ rootName # "" THEN rootName ELSE "self"
        IN env.vars = { <<scope, ClaimedScalarType(schema.Type[1])>> }

\* Reached: Compile returned for a string root with format byte and its
\* environment holds self as a String and nothing else.
C12_Witness ==
    /\ fn = "Compile" /\ pc = "done" /\ LoopEntered
    /\ schema.Type = <<"string">>
    /\ schema.Format = "byte"
    /\ env.vars = { <<"self", "String">> }

\* The schema is an object root with named properties / a map root.
ObjectRoot(s) == s.Type = <<"object">> /\ s.AdditionalProperties = Nil

MapRoot(s) == s.Type = <<"object">> /\ s.AdditionalProperties # Nil

\* The engine type the claim gives to a direct field.
ClaimedFieldType(t) ==
    CASE t = "string" -> "String"
      [] t = "integer" -> "Int"
      [] t = "boolean" -> "Bool"
      [] t = "number" -> "Double"
      [] t = "array" -> "List"

\* The scope variable of the running call: the root name given, else the
\* function's default.
ScopeVar ==
    CASE fn = "Compile" -> (IF rootName = "" THEN "self" ELSE rootName)
      [] fn = "CompileCel" -> (IF rootName = "" THEN "__root__" ELSE rootName)
      [] OTHER -> "self"

\* C13: for an object root and for a map root, the environment declares every
\* direct field as a variable of the field's type, declares the scope variable
\* bound to the whole value, and declares nothing else.
C13_ObjectRootEnv ==
    (fn \in {"Compile", "Compile2", "CompileCel"} /\ EnvBuilt
        /\ (ObjectRoot(schema) \/ MapRoot(schema))) =>
        env.vars = { <<f[1], ClaimedFieldType(f[2])>> : f \in schema.Properties }
                     \cup { <<ScopeVar, IF MapRoot(schema) THEN "Map" ELSE "Object">> }

\* Reached: Compile returned for the object root with minReplicas and
\* maxReplicas; both fields and self are declared.
C13_Witness ==
    /\ fn = "Compile" /\ pc = "done" /\ LoopEntered
    /\ ObjectRoot(schema)
    /\ <<"minReplicas", "Int">> \in env.vars
    /\ <<"maxReplicas", "Int">> \in env.vars
    /\ <<"self", "Object">> \in env.vars

\* C14 as stated: an empty scope-variable name binds the whole value to
\* "self"; a non-empty name is used as given and "self" is not declared.
C14_AsStated ==
    (fn \in {"Compile", "CompileCel"} /\ EnvBuilt) =>
        /\ rootName = "" => Declared(env, "self")
        /\ rootName # "" => Declared(env, rootName) /\ ~Declared(env, "self")

-----------------------------------------------------------------------------
(* A caller that compiles a pair, compiles other schemas, and compiles the  *)
(* pair again.  Every call runs Compile from its first line: the locals env, *)
(* programs and allErrors are the call's own.                               *)

RepeatTexts == {"true", "minReplicas", "size(self) == 10"}

RepeatRules == UNION { [1..n -> [Rule : RepeatTexts, Message : {"m1"}]] : n \in 1..MaxRules }

RepeatSchemas ==
    { MkSchema(<<"string">>, {}, Nil, Nil),
      MkSchema(<<"object">>, {<<"minReplicas", "integer">>, <<"maxReplicas", "integer">>}, Nil, Nil),
      MkSchema(<<"object">>, {}, "boolean", Nil),
      MkSchema(<<"array">>, {}, Nil, "string") }

RepeatFaults == { {}, {"EnvOptions"}, {"Extend"} }

\* The calls made for other schemas in between.
OtherCalls ==
    { [fn |-> "Compile", schema |-> MkSchema(<<"string">>, {}, Nil, Nil), rootName |-> "root"],
      [fn |-> "Compile", schema |-> MkSchema(<<"object">>, {<<"tags", "array">>}, Nil, Nil),
       rootName |-> ""],
      [fn |-> "Compile2",
       schema |-> MkSchema(<<"object">>,
                           {<<"minReplicas", "integer">>, <<"maxReplicas", "integer">>}, Nil, Nil),
       rootName |-> ""] }

\* The setup of the two Compile functions of cel_compilation.go.
SetupOf(f, s, name, faults) ==
    IF f = "Compile" THEN CompileSetup(s, name, faults) ELSE Compile2Setup(s, faults)

\* The first Compile call of the caller.
CompileFirst ==
    /\ Idle
    /\ phase = "first"
    /\ \E f \in {"Compile", "Compile2"}, s \in RepeatSchemas, rules \in RepeatRules,
          name \in RootNames, faults \in RepeatFaults :
          LET r == SetupOf(f, s, name, faults) IN
          /\ f = "Compile2" => name = ""
          /\ Enter(f, s, rules, name, "", r)
          /\ pc' = IF r.ok THEN "loop" ELSE "done"
    /\ UNCHANGED <<validator, setPathArg, validateVars, prev, memo, phase, other>>

\* The caller takes what the call returned; the first call's results are kept.
CallerKeeps ==
    /\ pc = "done"
    /\ phase \in {"first", "between"}
    /\ pc' = "idle"
    /\ phase' = "between"
    /\ memo' = IF phase = "first"
               THEN [set |-> TRUE, others |-> FALSE, fn |-> fn, schema |-> schema,
                     rules |-> CelRules, rootName |-> rootName, raised |-> raised,
                     env |-> env, programs |-> programs, allErrors |-> allErrors,
                     submitted |-> submitted]
               ELSE memo
    /\ UNCHANGED <<fn, schema, CelRules, rootName, path, env, programs, allErrors, i,
                   submitted, raised, validator, setPathArg, validateVars, args, prev, other>>

\* A Compile call for another schema.
CompileOther ==
    /\ Idle
    /\ phase = "between"
    /\ \E c \in OtherCalls :
          LET r == SetupOf(c.fn, c.schema, c.rootName, {}) IN
          /\ c.schema # memo.schema
          /\ Enter(c.fn, c.schema, <<[Rule |-> "true", Message |-> "m1"]>>, c.rootName, "", r)
          /\ pc' = IF r.ok THEN "loop" ELSE "done"
    /\ memo' = [memo EXCEPT !.others = TRUE]
    /\ UNCHANGED <<validator, setPathArg, validateVars, prev, phase, other>>

\* The same (schema, rules) pair is compiled again; the setup calls of the
\* engine answer as they did the first time.
CompileAgain ==
    /\ Idle
    /\ phase = "between"
    /\ LET r == SetupOf(memo.fn, memo.schema, memo.rootName, memo.raised) IN
          /\ Enter(memo.fn, memo.schema, memo.rules, memo.rootName, "", r)
          /\ pc' = IF r.ok THEN "loop" ELSE "done"
    /\ phase' = "repeat"
    /\ UNCHANGED <<validator, setPathArg, validateVars, prev, memo, other>>

NextRepeat ==
    \/ CompileFirst
    \/ CompileRule
    \/ CompileReturn
    \/ CallerKeeps
    \/ CompileOther
    \/ CompileAgain

SpecRepeat == Init /\ [][NextRepeat]_vars

\* The rules whose Program() call the engine refused in a call.
ProgramErrors(log) == { log[k].idx : k \in { j \in 1..Len(log) : log[j].result = "program error" } }

\* The second compilation of the pair has returned, and the engine refused
\* the same Program() calls both times.
Repeated ==
    /\ phase = "repeat"
    /\ pc = "done"
    /\ ProgramErrors(submitted) = ProgramErrors(memo.submitted)

\* C15: compiling the same (schema, rules) pair again, after any number of
\* Compile calls for other schemas, gives the same declared variables, the
\* same present/absent programs and the same errors, and programs with the
\* same outcomes on every instance; and the environment of a call declares
\* no name that does not come from the call's own schema node.
C15_Deterministic ==
    /\ Repeated =>
          /\ env.vars = memo.env.vars
          /\ programs.nil = memo.programs.nil
          /\ Len(programs.elems) = Len(memo.programs.elems)
          /\ \A k \in 1..Len(programs.elems) :
                /\ programs.elems[k].nil = memo.programs.elems[k].nil
                /\ \A d \in Instances :
                      Eval(programs.elems[k], d) = Eval(memo.programs.elems[k], d)
          /\ allErrors = memo.allErrors
    /\ (fn \in {"Compile", "Compile2"} /\ EnvBuilt) =>
          \A v \in env.vars : v[1] \in { f[1] : f \in schema.Properties } \cup {ScopeVar}

\* Reached: the pair was compiled, another schema was compiled, and the pair
\* was compiled again, with a program and an error returned.
C15_Witness ==
    /\ Repeated
    /\ memo.others
    /\ fn = "Compile"
    /\ NumPrograms >= 1
    /\ Len(allErrors) >= 1

-----------------------------------------------------------------------------
(* Frame properties *)

\* C16: at every point of a Compile call and after it has returned, whether it
\* succeeded or failed, the caller's schema node (type list, properties,
\* items, additional properties) and rule list (order, expression text and
\* message of every rule) are as they were passed.
C16_InputsUnchanged ==
    (fn \in {"Compile", "Compile2"} /\ pc \in {"loop", "done"}) =>
        /\ schema = args.schema
        /\ CelRules = args.rules

\* Reached: Compile has returned a program and an error for a list of two
\* rules, one of them with an empty expression.
C16_Witness ==
    /\ Returned
    /\ fn = "Compile"
    /\ N = 2
    /\ CelRules[1].Rule = ""
    /\ NumPrograms = 1
    /\ Len(allErrors) = 1
    /\ CelRules = args.rules

-----------------------------------------------------------------------------
(* Two Validate calls running at once on one validator.  The validator is   *)
(* read by both; each call has its own data, loop index and *Result.        *)

\* Variant: the calls append to one Result held outside the call.
OwnResultShared(mine, theirs) == theirs

\* res := new(Result), line 100: the Result a call appends to is the one it
\* allocated, whatever another call holds.
OwnResult(mine, theirs) == mine

OtherValidate ==
    /\ Built
    /\ other.vpc \in {"idle", "done"}
    /\ \E d \in Instances : other' = [vpc |-> "loop", data |-> d, res |-> <<>>, vi |-> 1]
    /\ UNCHANGED <<compileVars, validator, setPathArg, validateVars, args, prev, memo, phase>>

OtherValidateRule ==
    /\ other.vpc = "loop"
    /\ other.vi <= Len(validator.Programs)
    /\ IF other.vi > Len(validator.Rules) \/ validator.Programs[other.vi].nil
       THEN other' = [other EXCEPT !.vpc = "panic"]
       ELSE LET out == RuleOutcome(validator, other.vi, other.data) IN
            other' = [other EXCEPT
                        !.res = OwnResult(other.res, res) \o out,
                        !.vi = ValidateNext(other.vi, Len(validator.Programs), out # <<>>)]
    /\ UNCHANGED <<compileVars, validator, setPathArg, validateVars, args, prev, memo, phase>>

OtherValidateReturn ==
    /\ other.vpc = "loop"
    /\ other.vi > Len(validator.Programs)
    /\ other' = [other EXCEPT !.vpc = "done"]
    /\ UNCHANGED <<compileVars, validator, setPathArg, validateVars, args, prev, memo, phase>>

NextConc ==
    \/ newCelExpressionValidator
    \/ ValidatorCompileRule
    \/ ValidatorReturn
    \/ Validate
    \/ ValidateRule
    \/ ValidateReturn
    \/ OtherValidate
    \/ OtherValidateRule
    \/ OtherValidateReturn

SpecConc == Init /\ [][NextConc]_vars

\* The errors of a Validate call run alone on instance d, after its first n
\* rules.
RECURSIVE AloneUpTo(_, _, _)
AloneUpTo(c, d, n) ==
    IF n = 0 THEN <<>> ELSE AloneUpTo(c, d, n - 1) \o RuleOutcome(c, n, d)

Alone(c, d) == AloneUpTo(c, d, Len(c.Programs))

\* C17: however two Validate calls on the same validator interleave, each
\* call's result is, at every step and at its return, what the call produces
\* when run alone on its own instance: no error of one call is in the other's
\* result.
C17_Isolated ==
    Built =>
        /\ vpc = "loop" => res = AloneUpTo(validator, data, vi - 1)
        /\ vpc = "done" => res = Alone(validator, data)
        /\ other.vpc = "loop" => other.res = AloneUpTo(validator, other.data, other.vi - 1)
        /\ other.vpc = "done" => other.res = Alone(validator, other.data)

\* Reached: both calls are in the middle of their loops on different
\* instances, each holding an error of its own.
C17_Witness ==
    /\ vpc = "loop" /\ other.vpc = "loop"
    /\ vi = 2 /\ other.vi = 2
    /\ data # other.data
    /\ res # <<>> /\ other.res # <<>>
    /\ res # other.res

-----------------------------------------------------------------------------
(* List roots *)

ListRoot(s) == s.Type = <<"array">>

\* A list nested in an object (a property of type array) or in an array.
NestedList(s) ==
    \/ ObjectRoot(s) /\ \E f \in s.Properties : f[2] = "array"
    \/ ListRoot(s) /\ s.Items = "array"

-----------------------------------------------------------------------------
(* SetPath and repeated Validate calls *)

\* C19 as stated: after SetPath(p), every error a later Validate call emits
\* carries p as its field path.  (SetPath is not called while a Validate call
\* is in its loop, so a call in its loop started after the last SetPath.)
C19_AsStated ==
    (Built /\ vpc = "loop" /\ setPathArg # NoPath) =>
        \A m \in 1..Len(res) : res[m].path = setPathArg

\* C20: Validate leaves the validator as the constructor built it (path,
\* rules, programs); every call starts from an empty result and holds at most
\* one error per rule it has run; and a call on the same instance as the call
\* before it returns the same errors.
C20_FreshResult ==
    Built =>
        /\ validator = MakeValidator(path, CelRules, programs)
        /\ (vpc = "loop" /\ vi = 1) => res = <<>>
        /\ vpc = "loop" => Len(res) <= vi - 1
        /\ (vpc = "done" /\ prev.set /\ prev.data = data) => res = prev.res

\* Reached: a second Validate call on the same instance has returned, after a
\* first call that returned an error.
C20_Witness ==
    /\ Built
    /\ vpc = "done"
    /\ prev.set
    /\ prev.data = data
    /\ prev.res # <<>>
    /\ res = prev.res

-----------------------------------------------------------------------------
(* Order and termination of the compile loop *)

\* The two Compile functions of cel_compilation.go on their own.  The loop of Compile runs to its end once entered: the goroutine that called
\* Compile keeps being scheduled and the engine's calls return.
NextCompile ==
    \/ Compile
    \/ Compile2
    \/ CompileRule
    \/ CompileReturn

SpecFair ==
    Init /\ [][NextCompile]_vars /\ WF_vars(CompileRule) /\ WF_vars(CompileReturn)

\* One of the two Compile functions is in its loop / past its setup.
InCompileLoop == fn \in {"Compile", "Compile2"} /\ pc = "loop"

PastSetup == fn \in {"Compile", "Compile2"} /\ pc \in {"loop", "done"} /\ LoopEntered

\* The compile attempts made so far are the rules 1..i-1, once each and in
\* input order, and the errors so far are those of the refused attempts in
\* the order of the attempts.
VisitedInOrder ==
    /\ i <= N + 1
    /\ [c \in Calls |-> submitted[c].idx] = [k \in 1..(i - 1) |-> k]
    /\ pc = "done" => Len(submitted) = N
    /\ Len(allErrors) = Len(FailSeq)
    /\ \A m \in 1..Len(allErrors) :
          /\ allErrors[m].message = CelRules[FailSeq[m].idx].Message
          /\ allErrors[m].cause = FailSeq[m].diag
          /\ m > 1 => FailSeq[m - 1].idx < FailSeq[m].idx

\* A step of the loop makes exactly one attempt, on rule i, and keeps the
\* errors returned so far as a prefix; the step after rule N is the return.
OneAttemptPerStep ==
    InCompileLoop =>
        \/ /\ i <= N
           /\ pc' = "loop"
           /\ i' = i + 1
           /\ Len(submitted') = Len(submitted) + 1
           /\ submitted'[Len(submitted')].idx = i
           /\ SubSeq(allErrors', 1, Len(allErrors)) = allErrors
        \/ /\ i = N + 1
           /\ pc' = "done"
           /\ submitted' = submitted
           /\ allErrors' = allErrors

\* C21: Compile visits the rules once each in input order, makes exactly N
\* compile attempts and then returns, and the errors it returns are in the
\* order of the failing rules in the input list.
C21_OrderedAndTerminates ==
    /\ [](PastSetup => VisitedInOrder)
    /\ [][OneAttemptPerStep]_vars
    /\ (InCompileLoop ~> (fn \in {"Compile", "Compile2"} /\ pc = "done"))

\* Reached: Compile returned after two attempts, the first refused by the
\* compiler and the second by Program(), with the two errors in that order.
C21_Witness ==
    /\ Returned /\ fn = "Compile" /\ N = 2
    /\ Len(submitted) = 2
    /\ submitted[1].result = "issues"
    /\ submitted[2].result = "program error"
    /\ CelRules[1].Message # CelRules[2].Message
    /\ allErrors[1].kind = "compilation failed for rule"
    /\ allErrors[2].kind = "program instantiation failed for rule"

-----------------------------------------------------------------------------
(* The validator the constructor returns *)

\* C22: a validator returned by newCelExpressionValidator has as many programs
\* as rules, every slot holding the program of its own rule and none absent;
\* so no Validate call indexes a rule out of range or invokes an absent
\* program, whatever the length of the rule list, and for the empty list
\* Validate evaluates nothing and returns a valid result.
C22_ProgramPerRule ==
    /\ Built =>
          /\ Len(validator.Programs) = Len(validator.Rules)
          /\ \A k \in 1..Len(validator.Programs) :
                /\ ~validator.Programs[k].nil
                /\ validator.Programs[k] = Program(validator.Rules[k].Rule)
    /\ vpc # "panic"
    /\ \A j \in 1..Len(evals) : evals[j].idx \in 1..Len(validator.Rules)
    /\ (vpc = "done" /\ validator.Rules = <<>>) => evals = <<>> /\ IsValid(res)

\* Reached: a validator built from two rules has run both programs in a
\* Validate call that returned.
C22_Witness ==
    /\ Built
    /\ vpc = "done"
    /\ Len(validator.Rules) = 2
    /\ Len(validator.Programs) = 2
    /\ Len(evals) = 2

\* Reached: a Validate call on a validator built from the empty rule list has
\* returned a valid result.
EmptyListValidated ==
    /\ Built
    /\ vpc = "done"
    /\ validator.Rules = <<>>
    /\ IsValid(res)

====
